---- MODULE Spec2Model ----
(***************************************************************************)
(* A model of tornado_helper.Helper (src/tornado_helper/Helper.py): the    *)
(* download engine that drives aria2c, the archive extractor (unzip), the  *)
(* B2 upload and the local delete.  Python strings are TLA+ strings; the   *)
(* library functions the code calls (urlparse, os.path.basename,           *)
(* os.path.join, str.endswith, the `in` substring test) are operators that *)
(* compute what the library computes.  The calls that GOES.download,       *)
(* TorNet.catalog and TorNet.download (src/tornado_helper/GOES.py,         *)
(* TorNet.py) make of Helper.download are modelled as well.                *)
(***************************************************************************)
EXTENDS Integers, Sequences, FiniteSets, TLC

VARIABLES
    call,             \* the method that is running
    caller,           \* the subclass method that was invoked ("" for none)
    links_str,        \* the str a subclass method passes as `links`
    csv_path,         \* TorNet.catalog: <<p>> once read_csv was given p
    pc,               \* position inside that method
    links,            \* download: the `links` local (rebound at line 163)
    links0,           \* download: the `links` argument as passed
    bucket,           \* download / upload: the `bucket` argument
    output_dir,       \* download / unzip: the `output_dir` argument
    unzipFlag,        \* download: the `unzip` argument
    files,            \* unzip / upload / delete: the `files` argument
    files0,           \* the `files` argument of the first unzip call
    aria2c,           \* environment: shutil.which("aria2c") finds it
    fs,               \* environment: the regular files that exist on disk
    fs0,              \* the files that existed when the call started
    temp_file,        \* download: temp_file (None or the file's name)
    temp_text,        \* text written to the temporary file
    temp_closed,      \* temp_file.close() has run
    temp_made,        \* how many temporary files the call has created
    command,          \* download: the aria2c command line
    proc,             \* the aria2c process: "none", "running", "exited"
    lines_read,       \* the lines read from process.stdout so far
    pbar_n,           \* tqdm's count, one per update(1)
    pbar_total,       \* tqdm's total
    returncode,       \* <<k>> once process.wait() saw exit status k
    events,           \* the update(1) calls made on the bar, in order
    eof,              \* the for loop over process.stdout has ended
    download_dir,     \* download: download_dir
    extracted_files,  \* unzip: extracted_files
    idx,              \* unzip / upload / delete: 1-based loop index
    log,              \* unzip / delete: what each loop iteration did
    round,            \* unzip: 1 in the first call, 2 in a call on its result
    ret1,             \* unzip: <<r>> once the first call returned r
    uploaded,         \* upload: the (file, name) pairs sent so far
    ret,              \* <<v>> once the call returned v
    err               \* the exception raised in the call ("" for none)

vars == << call, caller, links_str, csv_path, pc, links, links0, bucket,
           output_dir, unzipFlag, files,
           files0, aria2c, fs, fs0, temp_file, temp_text, temp_closed,
           temp_made, command, proc, lines_read, pbar_n, pbar_total,
           returncode, events, eof,
           download_dir, extracted_files, idx, log, round, ret1, uploaded,
           ret, err >>

----------------------------------------------------------------------------
(* Bounds of the model *)

MaxLinks == 2      \* longest `links` list passed to download
MaxLines == 2      \* most lines the worker writes before closing its output
MaxFiles == 2      \* longest `files` list passed to unzip, upload, delete

----------------------------------------------------------------------------
(* Python's None and optional values *)

None == [some |-> FALSE, val |-> ""]
Some(v) == [some |-> TRUE, val |-> v]

\* Python truthiness of an Optional[str]: None and "" are both false.
Truthy(o) == o.some /\ o.val # ""

----------------------------------------------------------------------------
(* String functions of the Python library, over TLA+ strings *)

\* The Python slice s[i-1:j] of a string (1-based, both ends included),
\* clamped to the string as Python clamps a slice.
Slice(s, i, j) ==
    LET lo == IF i < 1 THEN 1 ELSE i
        hi == IF j > Len(s) THEN Len(s) ELSE j
    IN  IF lo > hi THEN "" ELSE SubSeq(s, lo, hi)

CharAt(s, i) == Slice(s, i, i)

\* s[i-1:] with a 1-based i
From(s, i) == Slice(s, i, Len(s))

\* str.find(c, start) for a one-character c: the 1-based index, 0 if absent
RECURSIVE Find(_, _, _)
Find(s, c, start) ==
    IF start > Len(s) THEN 0
    ELSE IF CharAt(s, start) = c THEN start
    ELSE Find(s, c, start + 1)

\* str.rfind(c) for a one-character c, scanning down from position i
RECURSIVE RFindFrom(_, _, _)
RFindFrom(s, c, i) ==
    IF i < 1 THEN 0
    ELSE IF CharAt(s, i) = c THEN i
    ELSE RFindFrom(s, c, i - 1)

RFind(s, c) == RFindFrom(s, c, Len(s))

\* str.endswith(suffix)
EndsWith(s, suffix) ==
    /\ Len(s) >= Len(suffix)
    /\ Slice(s, Len(s) - Len(suffix) + 1, Len(s)) = suffix

\* `sub in s`
Contains(s, sub) ==
    \E i \in 1..(Len(s) - Len(sub) + 1) : Slice(s, i, i + Len(sub) - 1) = sub

----------------------------------------------------------------------------
(* urllib.parse.urlparse(link).path, as Helper.download uses it (line 189) *)

ASCII_LOWER == "abcdefghijklmnopqrstuvwxyz"
ASCII_UPPER == "ABCDEFGHIJKLMNOPQRSTUVWXYZ"
DIGITS == "0123456789"

IsAlpha(c) == Find(ASCII_LOWER, c, 1) > 0 \/ Find(ASCII_UPPER, c, 1) > 0

\* urllib.parse.scheme_chars: letters, digits and "+-."
IsSchemeChar(c) == IsAlpha(c) \/ Find(DIGITS, c, 1) > 0 \/ Find("+-.", c, 1) > 0

\* str.lower(), on ASCII
RECURSIVE Lower(_)
Lower(s) ==
    IF s = "" THEN ""
    ELSE LET c == CharAt(s, 1)
             u == Find(ASCII_UPPER, c, 1)
         IN  (IF u > 0 THEN CharAt(ASCII_LOWER, u) ELSE c) \o Lower(From(s, 2))

\* urllib.parse.uses_params
UsesParams ==
    { "", "ftp", "hdl", "prospero", "http", "imap", "https", "shttp", "rtsp",
      "rtsps", "rtspu", "sip", "sips", "mms", "sftp", "tel" }

\* s.split(c, 1)[0] and [1] given i = s.find(c) (1-based, 0 if absent)
Before(s, i) == IF i > 0 THEN Slice(s, 1, i - 1) ELSE s
After(s, i) == IF i > 0 THEN From(s, i + 1) ELSE ""

\* urlsplit: url[:i] is a scheme when i = url.find(":") is past the first
\* character, the first character is a letter and all are scheme characters
HasScheme(url, i) ==
    /\ i > 1
    /\ IsAlpha(CharAt(url, 1))
    /\ \A k \in 1..(i - 1) : IsSchemeChar(CharAt(url, k))

SchemeAt(url, i) == IF HasScheme(url, i) THEN Lower(Slice(url, 1, i - 1)) ELSE ""
RestAt(url, i) == IF HasScheme(url, i) THEN From(url, i + 1) ELSE url

UrlScheme(url) == SchemeAt(url, Find(url, ":", 1))
AfterScheme(url) == RestAt(url, Find(url, ":", 1))

\* The least of three positions that are present (0 = absent), else dflt
MinHit(a, b, c, dflt) ==
    IF a > 0 /\ (b = 0 \/ a <= b) /\ (c = 0 \/ a <= c) THEN a
    ELSE IF b > 0 /\ (c = 0 \/ b <= c) THEN b
    ELSE IF c > 0 THEN c
    ELSE dflt

\* urllib.parse._splitnetloc(url, 2): where the netloc ends
NetlocEnd(url) ==
    MinHit(Find(url, "/", 3), Find(url, "?", 3), Find(url, "#", 3),
           Len(url) + 1)

HasNetloc(u) == Slice(u, 1, 2) = "//"
Netloc(u) == IF HasNetloc(u) THEN Slice(u, 3, NetlocEnd(u) - 1) ELSE ""
AfterNetloc(u) == IF HasNetloc(u) THEN From(u, NetlocEnd(u)) ELSE u

StripFragment(u) == Before(u, Find(u, "#", 1))
FragmentOf(u) == After(u, Find(u, "#", 1))
StripQuery(u) == Before(u, Find(u, "?", 1))
QueryOf(u) == After(u, Find(u, "?", 1))

\* urlsplit(url): scheme, netloc, path, query, fragment.  (The stripping of
\* leading blanks and of tab/CR/LF is left out: no locator here has any.)
UrlSplit(url) ==
    [scheme |-> UrlScheme(url),
     netloc |-> Netloc(AfterScheme(url)),
     path |-> StripQuery(StripFragment(AfterNetloc(AfterScheme(url)))),
     query |-> QueryOf(StripFragment(AfterNetloc(AfterScheme(url)))),
     fragment |-> FragmentOf(AfterNetloc(AfterScheme(url)))]

\* urllib.parse._splitparams(url)[0]: the path without the ";params" of its
\* last segment
SplitParamsPath(url) ==
    Before(url, IF Find(url, "/", 1) > 0
                THEN Find(url, ";", RFind(url, "/"))
                ELSE Find(url, ";", 1))

\* urlparse: params are split off when the scheme is in uses_params
ParsedPath(scheme, path) ==
    IF scheme \in UsesParams /\ Find(path, ";", 1) > 0
    THEN SplitParamsPath(path)
    ELSE path

\* urlparse(url).path
UrlParsePath(url) ==
    ParsedPath(UrlScheme(url),
               StripQuery(StripFragment(AfterNetloc(AfterScheme(url)))))

----------------------------------------------------------------------------
(* os.path (posixpath) *)

\* os.path.basename(p): what follows the last "/"
Basename(p) == From(p, RFind(p, "/") + 1)

\* os.path.join(a, b)
OsPathJoin(a, b) ==
    IF Slice(b, 1, 1) = "/" THEN b
    ELSE IF a = "" \/ EndsWith(a, "/") THEN a \o b
    ELSE a \o "/" \o b

----------------------------------------------------------------------------
(* Small helpers over sequences *)

SeqsUpTo(S, n) == UNION { [1..k -> S] : k \in 0..n }

Range(f) == { f[i] : i \in DOMAIN f }

\* "".join(xs)
RECURSIVE JoinAll(_)
JoinAll(xs) == IF xs = << >> THEN "" ELSE Head(xs) \o JoinAll(Tail(xs))

----------------------------------------------------------------------------
(* Program constants and the environment of a call *)

\* Helper.__DEFAULT_PROXY_URL
DEFAULT_PROXY_URL == "https://bbproxy.meyerstk.com"

\* The literal the progress loop looks for in a line of worker output
MARKER == "Download complete:"

\* os.getcwd()
CWD == "/home/user"

\* The name tempfile.NamedTemporaryFile gives the locator file
TEMP_NAME == "/tmp/tmplinks"

\* Locators passed to download: a bare object key, a URL with a query, and a
\* URL whose last segment has ";params" and a fragment
Locators ==
    { "t.tar.gz",
      "https://z.org/r/a.zip?download=1",
      "http://z.org/c/n.csv;v=1#top" }

Buckets == { None, Some(""), Some("bkt") }

OutputDirs == { None, Some(""), Some("data") }

\* The (bucket, output_dir) pairs a download is called with.  bucket is read
\* at lines 162-163 only and output_dir at lines 172-173 and 188 only, so
\* every value of either is tried with the other left out, and both are
\* tried given together.
DownloadArgs ==
    { << b, None >> : b \in Buckets }
        \cup { << None, d >> : d \in OutputDirs }
        \cup { << Some("bkt"), Some("data") >> }

\* The lines aria2c may write: a completion notice, and a line close to it
WorkerLines ==
    { "[NOTICE] Download complete: /d/f\n",
      "Download Results:\n" }

ExitCodes == { 0, 1 }

\* Environment: the file name aria2c saves a locator under, the last
\* segment of the URL's path: what follows the last "/" of the URL once its
\* query string and fragment are cut off.  The bucket prefix adds none of
\* "/", "?", "#" after the locator, so the name is the same whether or not
\* the locator was resolved against a bucket.
SavedName(locator) ==
    CASE locator = "t.tar.gz" -> "t.tar.gz"
      [] locator = "https://z.org/r/a.zip?download=1" -> "a.zip"
      [] locator = "http://z.org/c/n.csv;v=1#top" -> "n.csv;v=1"

\* Environment: the files a worker that exits 0 has saved under directory d
\* (a line of the list file that is no locator saves nothing)
WorkerSaved(d) ==
    { d \o "/" \o SavedName(links0[i]) :
        i \in { j \in DOMAIN links0 : links0[j] \in Locators } }

----------------------------------------------------------------------------
(* Variable groups *)

argVars ==
    << call, caller, links_str, csv_path, links0, bucket, output_dir,
       unzipFlag, aria2c, fs0 >>
tempVars == << temp_file, temp_text, temp_closed, temp_made >>
procVars ==
    << command, proc, lines_read, pbar_n, pbar_total, returncode, events,
       eof >>
loopVars == << files, files0, extracted_files, idx, log, round, ret1 >>

----------------------------------------------------------------------------
(* Helper.download, lines 154-203 *)

\* ResolveLinks with the bucket and the key in the wrong order
ResolveLinksSwapped(ls, b) ==
    IF Truthy(b)
    THEN [i \in DOMAIN ls |->
            DEFAULT_PROXY_URL \o "/file/" \o ls[i] \o "/" \o b.val]
    ELSE ls

\* Lines 162-163: the locators handed to the worker
ResolveLinks(ls, b) ==
    IF Truthy(b)
    THEN [i \in DOMAIN ls |->
            DEFAULT_PROXY_URL \o "/file/" \o b.val \o "/" \o ls[i]]
    ELSE ls

\* The locators written one after the other with no line ends
LinkFileTextUnterminated(ls) == JoinAll(ls)

\* Line 167: the text temp_file.writelines(link + "\n" for link in links) writes
LinkFileText(ls) == JoinAll([i \in DOMAIN ls |-> ls[i] \o "\n"])

\* Lines 171-173: the aria2c command line
Command(name, dir) ==
    << "aria2c", "-j", "3", "-x", "16", "-s", "16", "-i", name >>
        \o (IF Truthy(dir) THEN << "-d", dir.val >> ELSE << >>)

\* Line 188
DownloadDir(dir) == IF Truthy(dir) THEN dir.val ELSE CWD

\* DownloadedFiles taking the base name of the whole locator, query included
DownloadedFilesRawName(ls, dir) ==
    [i \in DOMAIN ls |-> OsPathJoin(dir, Basename(ls[i]))]

\* Line 189: the expected local path of every locator
DownloadedFiles(ls, dir) ==
    [i \in DOMAIN ls |-> OsPathJoin(dir, Basename(UrlParsePath(ls[i])))]

\* ProgressOf looking for a shorter literal
ProgressOfLooseMarker(line) == IF Contains(line, "Download") THEN 1 ELSE 0

\* Lines 180-181: what one line of worker output adds to the progress bar
ProgressOf(line) == IF Contains(line, MARKER) THEN 1 ELSE 0

\* CheckDependency with the check's result ignored
CheckDependencyIgnored ==
    /\ call = "download" /\ pc = "check"
    /\ pc' = "resolve" /\ err' = err
    /\ UNCHANGED << argVars, tempVars, procVars, loopVars, links, fs,
                    download_dir, uploaded, ret >>

\* Line 160 and _check_dependency (lines 42-61): RuntimeError when
\* shutil.which finds no aria2c, before anything else is done
CheckDependency ==
    /\ call = "download" /\ pc = "check"
    /\ IF aria2c
       THEN pc' = "resolve" /\ err' = err
       ELSE pc' = "raised" /\ err' = "RuntimeError"
    /\ UNCHANGED << argVars, tempVars, procVars, loopVars, links, fs,
                    download_dir, uploaded, ret >>

\* Lines 162-163
Resolve ==
    /\ call = "download" /\ pc = "resolve"
    /\ links' = ResolveLinks(links, bucket)
    /\ pc' = "mktemp"
    /\ UNCHANGED << argVars, tempVars, procVars, loopVars, fs, download_dir,
                    uploaded, ret, err >>

\* Line 166: NamedTemporaryFile(delete=False) creates the file
CreateTemp ==
    /\ call = "download" /\ pc = "mktemp"
    /\ temp_file' = Some(TEMP_NAME)
    /\ fs' = fs \cup { TEMP_NAME }
    /\ temp_made' = temp_made + 1
    /\ pc' = "write"
    /\ UNCHANGED << argVars, temp_text, temp_closed, procVars, loopVars, links,
                    download_dir, uploaded, ret, err >>

\* Line 166 raising OSError (no temporary directory is writable); the
\* handler of lines 201-203 logs and re-raises
CreateTempFails ==
    /\ call = "download" /\ pc = "mktemp"
    /\ pc' = "raised" /\ err' = "OSError"
    /\ UNCHANGED << argVars, tempVars, procVars, loopVars, links, fs,
                    download_dir, uploaded, ret >>

\* Lines 167-168: the locators are written and the file is closed
WriteTemp ==
    /\ call = "download" /\ pc = "write"
    /\ temp_text' = LinkFileText(links)
    /\ temp_closed' = TRUE
    /\ pc' = "popen"
    /\ UNCHANGED << argVars, temp_file, temp_made, procVars, loopVars, links,
                    fs, download_dir, uploaded, ret, err >>

\* Lines 171-177: the command is built, the worker starts, the bar is made
Launch ==
    /\ call = "download" /\ pc = "popen"
    /\ command' = Command(temp_file.val, output_dir)
    /\ proc' = "running"
    /\ pbar_total' = Len(links)
    /\ pbar_n' = 0
    /\ pc' = "read"
    /\ UNCHANGED << argVars, tempVars, lines_read, returncode, events, eof,
                    loopVars, links, fs, download_dir, uploaded, ret, err >>

\* Line 176: subprocess.Popen raising OSError (the executable cannot be
\* started); the handler of lines 201-203 logs and re-raises
LaunchFails ==
    /\ call = "download" /\ pc = "popen"
    /\ command' = Command(temp_file.val, output_dir)
    /\ pc' = "raised" /\ err' = "OSError"
    /\ UNCHANGED << argVars, tempVars, proc, lines_read, pbar_n, pbar_total,
                    returncode, events, eof, loopVars, links, fs,
                    download_dir, uploaded, ret >>

\* The update(1) calls after a line that advances the bar by k (0 or 1);
\* each records the count it made and how many lines had been read by then
Emitted(k) ==
    IF k = 1
    THEN Append(events, [n |-> pbar_n + 1, at |-> Len(lines_read) + 1])
    ELSE events

\* ReadLine with the bar set to, instead of advanced by, the line's progress
ReadLineRestartsCount ==
    /\ call = "download" /\ pc = "read"
    /\ Len(lines_read) < MaxLines
    /\ \E line \in WorkerLines :
          /\ lines_read' = Append(lines_read, line)
          /\ pbar_n' = ProgressOf(line)
          /\ events' = Emitted(ProgressOf(line))
    /\ UNCHANGED << argVars, tempVars, command, proc, pbar_total, returncode,
                    eof, loopVars, links, fs, download_dir, uploaded, ret, err,
                    pc >>

\* ReadLine with the output collected first and scanned once it has ended
ReadLineCollectsFirst ==
    /\ call = "download" /\ pc = "read"
    /\ Len(lines_read) < MaxLines
    /\ \E line \in WorkerLines :
          /\ lines_read' = Append(lines_read, line)
          /\ pbar_n' = pbar_n
          /\ events' = events
    /\ UNCHANGED << argVars, tempVars, command, proc, pbar_total, returncode,
                    eof, loopVars, links, fs, download_dir, uploaded, ret, err,
                    pc >>

\* Lines 178-181: one line of the worker's output is read and, when it
\* holds the marker, the bar is advanced before the next line is read
ReadLine ==
    /\ call = "download" /\ pc = "read"
    /\ Len(lines_read) < MaxLines
    /\ \E line \in WorkerLines :
          /\ lines_read' = Append(lines_read, line)
          /\ pbar_n' = pbar_n + ProgressOf(line)
          /\ events' = Emitted(ProgressOf(line))
    /\ UNCHANGED << argVars, tempVars, command, proc, pbar_total, returncode,
                    eof, loopVars, links, fs, download_dir, uploaded, ret, err,
                    pc >>

\* Line 178: the worker closed its output, the for loop ends
ReadEOF ==
    /\ call = "download" /\ pc = "read"
    /\ eof' = TRUE
    /\ pc' = "wait"
    /\ UNCHANGED << argVars, tempVars, command, proc, lines_read, pbar_n,
                    pbar_total, returncode, events, loopVars, links, fs,
                    download_dir, uploaded, ret, err >>

\* Environment: what a worker that exits with status k has saved under
\* directory d by then: every file when k is 0, any part of them otherwise
WorkerOutcomes(k, d) ==
    IF k = 0 THEN { WorkerSaved(d) } ELSE SUBSET WorkerSaved(d)

\* Line 178: reading the text stream raises (UnicodeDecodeError on bytes that
\* are not valid text).  The exception leaves the for loop and reaches the
\* with statement of line 176 while the worker is still running.
ReadFails ==
    /\ call = "download" /\ pc = "read"
    /\ err' = "UnicodeDecodeError"
    /\ pc' = "exit_wait"
    /\ UNCHANGED << argVars, tempVars, procVars, loopVars, links, fs,
                    download_dir, uploaded, ret >>

\* Line 176: Popen.__exit__ closes the pipe and waits for the worker, which
\* runs on, and may save files, until it exits; the exit status is seen by
\* Popen.__exit__ only.  Then the handler of lines 201-203 logs and
\* re-raises.  The step is not taken for as long as the worker lives.
PopenExit ==
    /\ call = "download" /\ pc = "exit_wait"
    /\ \E k \in ExitCodes :
          \E saved \in WorkerOutcomes(k, DownloadDir(output_dir)) :
              fs' = fs \cup saved
    /\ proc' = "exited"
    /\ pc' = "raised"
    /\ UNCHANGED << argVars, tempVars, command, lines_read, pbar_n, pbar_total,
                    returncode, events, eof, loopVars, links, download_dir,
                    uploaded, ret, err >>

\* Lines 182-183: process.wait() returns the exit status, which is dropped.
\* A worker that exits 0 has saved its files; one that exits with another
\* status has saved any part of them.
Wait ==
    /\ call = "download" /\ pc = "wait"
    /\ \E k \in ExitCodes :
          /\ returncode' = << k >>
          /\ \E saved \in WorkerOutcomes(k, DownloadDir(output_dir)) :
                fs' = fs \cup saved
    /\ proc' = "exited"
    /\ pc' = "remove"
    /\ UNCHANGED << argVars, tempVars, command, lines_read, pbar_n, pbar_total,
                    events, eof, loopVars, links, download_dir, uploaded, ret,
                    err >>

\* Line 185: os.remove(temp_file.name)
RemoveTemp ==
    /\ call = "download" /\ pc = "remove"
    /\ fs' = fs \ { temp_file.val }
    /\ pc' = "paths"
    /\ UNCHANGED << argVars, tempVars, procVars, loopVars, links,
                    download_dir, uploaded, ret, err >>

\* Lines 188-196: the expected paths; returned as they are, or handed to
\* unzip (line 194) whose result is returned
ComputePaths ==
    /\ call = "download" /\ pc = "paths"
    /\ download_dir' = DownloadDir(output_dir)
    /\ LET downloaded_files == DownloadedFiles(links, DownloadDir(output_dir))
       IN  IF unzipFlag
           THEN /\ files' = downloaded_files
                /\ files0' = downloaded_files
                /\ pc' = "unzip"
                /\ ret' = ret
           ELSE /\ ret' = << downloaded_files >>
                /\ pc' = "done"
                /\ UNCHANGED << files, files0 >>
    /\ UNCHANGED << argVars, tempVars, procVars, extracted_files, idx, log,
                    round, ret1, links, fs, uploaded, err >>

----------------------------------------------------------------------------
(* Helper.unzip, lines 117-152 *)

\* Environment: zip_ref.namelist() of a readable .zip (a directory entry's
\* name ends in "/")
ZipNames == << "a.txt", "sub/", "sub/b.txt" >>

\* Environment: tar_ref.getmembers() of a readable .tar.gz / .tgz
TarMembers ==
    << [name |-> "t", isfile |-> FALSE],
       [name |-> "t/x.nc", isfile |-> TRUE],
       [name |-> "t/y.nc", isfile |-> TRUE] >>

\* Kind with the suffix compared without regard to case
KindAnyCase(file_path) ==
    IF EndsWith(Lower(file_path), ".zip") THEN "zip"
    ELSE IF EndsWith(Lower(file_path), ".tar.gz")
            \/ EndsWith(Lower(file_path), ".tgz")
         THEN "tar"
    ELSE "plain"

\* Lines 133, 139, 146: the branch a path takes
Kind(file_path) ==
    IF EndsWith(file_path, ".zip") THEN "zip"
    ELSE IF EndsWith(file_path, ".tar.gz") \/ EndsWith(file_path, ".tgz")
         THEN "tar"
    ELSE "plain"

\* Lines 142-143: the members kept from a tar archive
TarFileMembers == SelectSeq(TarMembers, LAMBDA m : m.isfile)

\* Collected with the directory entries of a tar archive kept
CollectedAllMembers(file_path, out) ==
    IF EndsWith(file_path, ".zip")
    THEN [k \in DOMAIN ZipNames |-> OsPathJoin(out, ZipNames[k])]
    ELSE [k \in DOMAIN TarMembers |-> OsPathJoin(out, TarMembers[k].name)]

\* Lines 136 and 142-143: the paths an extracted archive adds to
\* extracted_files
Collected(file_path, out) ==
    IF Kind(file_path) = "zip"
    THEN [k \in DOMAIN ZipNames |-> OsPathJoin(out, ZipNames[k])]
    ELSE [k \in DOMAIN TarFileMembers |->
            OsPathJoin(out, TarFileMembers[k].name)]

\* Number of members of the archive at a path
MemberCount(file_path) ==
    IF Kind(file_path) = "zip" THEN Len(ZipNames) ELSE Len(TarMembers)

\* Lines 135 and 141: the regular files extractall has written once it has
\* handled the first k members
OnDisk(file_path, out, k) ==
    IF Kind(file_path) = "zip"
    THEN { OsPathJoin(out, ZipNames[j]) :
             j \in { i \in 1..k : ~EndsWith(ZipNames[i], "/") } }
    ELSE { OsPathJoin(out, TarMembers[j].name) :
             j \in { i \in 1..k : TarMembers[i].isfile } }

\* The output_dir unzip was called with: download passes download_dir
UnzipOut == IF call = "download" THEN download_dir ELSE output_dir.val

InUnzipLoop ==
    /\ call \in { "download", "unzip" }
    /\ pc = "unzip"
    /\ idx <= Len(files)

\* What one iteration did to file idx: its outcome, the paths it added to
\* extracted_files, and whether the file was on disk before and after
Logged(tag) ==
    log' = Append(log,
        [tag |-> tag,
         contrib |-> SubSeq(extracted_files', Len(extracted_files) + 1,
                            Len(extracted_files')),
         existed |-> files[idx] \in fs,
         exists |-> files[idx] \in fs'])

unzipRest ==
    << argVars, tempVars, procVars, files, files0, round, ret1, links,
       download_dir, uploaded, ret, err, pc >>

\* UnzipOpenFails with the unreadable file passed through as it is
UnzipOpenFailsPassedThrough ==
    /\ InUnzipLoop
    /\ Kind(files[idx]) # "plain"
    /\ extracted_files' = Append(extracted_files, files[idx])
    /\ fs' = fs
    /\ idx' = idx + 1
    /\ Logged("open_failed")
    /\ UNCHANGED unzipRest

\* Lines 134 / 140 raise (the file is missing, or is no archive); line 148
\* catches, line 150 moves on
UnzipOpenFails ==
    /\ InUnzipLoop
    /\ Kind(files[idx]) # "plain"
    /\ extracted_files' = extracted_files
    /\ fs' = fs
    /\ idx' = idx + 1
    /\ Logged("open_failed")
    /\ UNCHANGED unzipRest

\* Lines 135 / 141 raise after k members were written (a member whose
\* data is found bad is written before the error is raised, so k may be
\* every member); line 148 catches
UnzipExtractFails ==
    /\ InUnzipLoop
    /\ Kind(files[idx]) # "plain"
    /\ files[idx] \in fs
    /\ \E k \in 0..MemberCount(files[idx]) :
          fs' = fs \cup OnDisk(files[idx], UnzipOut, k)
    /\ extracted_files' = extracted_files
    /\ idx' = idx + 1
    /\ Logged("extract_failed")
    /\ UNCHANGED unzipRest

\* Lines 134-138 / 140-145 with nothing raised: members extracted, their
\* paths collected, the archive removed
UnzipExtracted ==
    /\ InUnzipLoop
    /\ Kind(files[idx]) # "plain"
    /\ files[idx] \in fs
    /\ extracted_files' = extracted_files \o Collected(files[idx], UnzipOut)
    /\ fs' = (fs \cup OnDisk(files[idx], UnzipOut, MemberCount(files[idx])))
                \ { files[idx] }
    /\ idx' = idx + 1
    /\ Logged("extracted")
    /\ UNCHANGED unzipRest

\* Lines 137 / 144 raise (os.remove is refused) after the paths were
\* collected at lines 136 / 142; line 148 catches
UnzipRemoveFails ==
    /\ InUnzipLoop
    /\ Kind(files[idx]) # "plain"
    /\ files[idx] \in fs
    /\ extracted_files' = extracted_files \o Collected(files[idx], UnzipOut)
    /\ fs' = fs \cup OnDisk(files[idx], UnzipOut, MemberCount(files[idx]))
    /\ idx' = idx + 1
    /\ Logged("remove_failed")
    /\ UNCHANGED unzipRest

\* Lines 146-147: any other suffix is passed through
UnzipPassThrough ==
    /\ InUnzipLoop
    /\ Kind(files[idx]) = "plain"
    /\ extracted_files' = Append(extracted_files, files[idx])
    /\ fs' = fs
    /\ idx' = idx + 1
    /\ Logged("passed")
    /\ UNCHANGED unzipRest

\* Line 152 (and line 194, download returning unzip's result)
UnzipReturn ==
    /\ call \in { "download", "unzip" }
    /\ pc = "unzip"
    /\ idx > Len(files)
    /\ ret' = << extracted_files >>
    /\ ret1' = IF round = 1 THEN << extracted_files >> ELSE ret1
    /\ pc' = "done"
    /\ UNCHANGED << argVars, tempVars, procVars, files, files0,
                    extracted_files, idx, log, round, links, fs, download_dir,
                    uploaded, err >>

\* The caller applies unzip to the list the first call returned
UnzipAgain ==
    /\ call = "unzip" /\ pc = "done" /\ round = 1
    /\ round' = 2
    /\ files' = ret[1]
    /\ extracted_files' = << >>
    /\ idx' = 1
    /\ log' = << >>
    /\ ret' = << >>
    /\ pc' = "unzip"
    /\ UNCHANGED << argVars, tempVars, procVars, files0, ret1, links, fs,
                    download_dir, uploaded, err >>

----------------------------------------------------------------------------
(* Helper.upload, lines 63-99 *)

uploadRest ==
    << argVars, tempVars, procVars, files, files0, extracted_files, log,
       round, ret1, links, fs, download_dir >>

\* Lines 82-87: authorize_account succeeds
Authorize ==
    /\ call = "upload" /\ pc = "auth"
    /\ pc' = "bucket"
    /\ UNCHANGED << uploadRest, idx, uploaded, ret, err >>

\* Lines 84-86 raise; lines 97-99 log and re-raise
AuthorizeFails ==
    /\ call = "upload" /\ pc = "auth"
    /\ pc' = "raised" /\ err' = "AuthError"
    /\ UNCHANGED << uploadRest, idx, uploaded, ret >>

\* Line 89: get_bucket_by_name succeeds
GetBucket ==
    /\ call = "upload" /\ pc = "bucket"
    /\ pc' = "upload"
    /\ UNCHANGED << uploadRest, idx, uploaded, ret, err >>

\* Line 89 raises; lines 97-99 log and re-raise
GetBucketFails ==
    /\ call = "upload" /\ pc = "bucket"
    /\ pc' = "raised" /\ err' = "BucketError"
    /\ UNCHANGED << uploadRest, idx, uploaded, ret >>

\* Line 93: the object name a file is uploaded under
UploadName(file) == Basename(file)

\* Lines 91-93: one file is uploaded
UploadFile ==
    /\ call = "upload" /\ pc = "upload"
    /\ idx <= Len(files)
    /\ uploaded' = Append(uploaded,
                          [file |-> files[idx], name |-> UploadName(files[idx])])
    /\ idx' = idx + 1
    /\ UNCHANGED << uploadRest, ret, err, pc >>

\* UploadFileFails with the error swallowed and the loop going on
UploadFileFailsSwallowed ==
    /\ call = "upload" /\ pc = "upload"
    /\ idx <= Len(files)
    /\ idx' = idx + 1
    /\ UNCHANGED << uploadRest, uploaded, ret, err, pc >>

\* Line 93 raises; lines 97-99 log and re-raise
UploadFileFails ==
    /\ call = "upload" /\ pc = "upload"
    /\ idx <= Len(files)
    /\ pc' = "raised" /\ err' = "UploadError"
    /\ UNCHANGED << uploadRest, idx, uploaded, ret >>

\* Lines 95-96
UploadReturn ==
    /\ call = "upload" /\ pc = "upload"
    /\ idx > Len(files)
    /\ ret' = << TRUE >>
    /\ pc' = "done"
    /\ UNCHANGED << uploadRest, idx, uploaded, err >>

----------------------------------------------------------------------------
(* Helper.delete, lines 101-115 *)

deleteRest ==
    << argVars, tempVars, procVars, files, files0, extracted_files, round,
       ret1, links, download_dir, uploaded, ret, err, pc >>

\* What one iteration of delete did to file idx
DeleteLogged(tag) ==
    log' = Append(log,
        [tag |-> tag, contrib |-> << >>,
         file |-> files[idx],
         existed |-> files[idx] \in fs,
         exists |-> files[idx] \in fs'])

\* Lines 112-113: os.remove succeeds
DeleteFile ==
    /\ call = "delete" /\ pc = "delete"
    /\ idx <= Len(files)
    /\ files[idx] \in fs
    /\ fs' = fs \ { files[idx] }
    /\ idx' = idx + 1
    /\ DeleteLogged("deleted")
    /\ UNCHANGED deleteRest

\* A delete whose failed removal ends the whole call
DeleteFailsAborts ==
    /\ call = "delete" /\ pc = "delete"
    /\ idx <= Len(files)
    /\ fs' = fs
    /\ idx' = idx + 1
    /\ DeleteLogged("warning")
    /\ pc' = "raised"
    /\ err' = "OSError"
    /\ UNCHANGED << argVars, tempVars, procVars, files, files0,
                    extracted_files, round, ret1, links, download_dir,
                    uploaded, ret >>

\* Lines 114-115: os.remove raises OSError (the file is missing, or its
\* removal is refused) and a warning is logged
DeleteFails ==
    /\ call = "delete" /\ pc = "delete"
    /\ idx <= Len(files)
    /\ fs' = fs
    /\ idx' = idx + 1
    /\ DeleteLogged("warning")
    /\ UNCHANGED deleteRest

\* The loop of line 110 ends and delete returns None
DeleteReturn ==
    /\ call = "delete" /\ pc = "delete"
    /\ idx > Len(files)
    /\ ret' = << None >>
    /\ pc' = "done"
    /\ UNCHANGED << argVars, tempVars, procVars, loopVars, links, fs,
                    download_dir, uploaded, err >>

----------------------------------------------------------------------------
(* The subclasses' calls of Helper.download: GOES.download (GOES.py, lines  *)
(* 187-204), TorNet.catalog and TorNet.download (TorNet.py, lines 43-84).   *)
(* Each passes a single str where Helper.download takes a list of str.      *)
(* Helper.download only iterates over `links` (lines 167 and 189) and takes *)
(* len(links) (line 177); Python iterates over a str character by           *)
(* character and len gives the number of characters, so the str acts there  *)
(* as the list of its characters.  links_str keeps the str that was passed. *)

\* list(s) for a str s: its characters, one-character strings, in order
IterStr(s) == [i \in 1 .. Len(s) |-> CharAt(s, i)]

\* GOES.py line 203
GoesUrl(nc_filename, goes_bucket) ==
    "https://" \o goes_bucket \o ".s3.amazonaws.com/" \o nc_filename

\* TorNet.py line 15
TORNET_CATALOG ==
    "https://zenodo.org/records/12636522/files/catalog.csv?download=1"

\* The arguments given to GOES.download
NcFilenames == { "ABI/x.nc", "y.nc" }
GoesBuckets == { "noaa-goes16" }

subclassRest ==
    << tempVars, procVars, loopVars, fs, fs0, aria2c, download_dir, uploaded,
       ret, err, csv_path >>

\* GOES.py lines 202-204: super().download(url, output_dir=output_dir),
\* bucket and unzip left at their defaults (None, True)
GoesDownload ==
    /\ call = "GOES.download" /\ pc = "goes"
    /\ \E nc_filename \in NcFilenames, goes_bucket \in GoesBuckets :
          links_str' = GoesUrl(nc_filename, goes_bucket)
    /\ links0' = IterStr(links_str')
    /\ links' = links0'
    /\ call' = "download"
    /\ pc' = "check"
    /\ UNCHANGED << subclassRest, caller, bucket, output_dir, unzipFlag >>

\* TorNet.py line 49: super().download(self.__CATALOG), every other
\* argument left at its default
CatalogDownload ==
    /\ call = "TorNet.catalog" /\ pc = "catalog"
    /\ links_str' = TORNET_CATALOG
    /\ links0' = IterStr(links_str')
    /\ links' = links0'
    /\ call' = "download"
    /\ pc' = "check"
    /\ UNCHANGED << subclassRest, caller, bucket, output_dir, unzipFlag >>

\* TorNet.py line 50: pd.read_csv(file_paths[0]) on what Helper.download
\* returned; FileNotFoundError when that path is no file
CatalogRead ==
    /\ caller = "TorNet.catalog" /\ call = "download" /\ pc = "done"
    /\ call' = "TorNet.catalog"
    /\ csv_path' = << ret[1][1] >>
    /\ IF ret[1][1] \in fs
       THEN pc' = "done" /\ err' = err /\ ret' = << "DataFrame" >>
       ELSE pc' = "raised" /\ err' = "FileNotFoundError" /\ ret' = << >>
    /\ UNCHANGED << tempVars, procVars, loopVars, fs, fs0, aria2c,
                    download_dir, uploaded, caller, links_str, links0, links,
                    bucket, output_dir, unzipFlag >>

\* TorNet.py line 74: TorNet.download reads self.raw, which no constructor
\* sets, before it does anything else
TorNetDownload ==
    /\ call = "TorNet.download" /\ pc = "tornet"
    /\ pc' = "raised"
    /\ err' = "AttributeError"
    /\ UNCHANGED << argVars, tempVars, procVars, loopVars, links, fs,
                    download_dir, uploaded, ret >>

----------------------------------------------------------------------------
(* The calls a caller can make *)

\* Files handed to unzip directly
UnzipFiles == { "in/a.zip", "in/t.tgz", "in/n.txt", "in/A.ZIP" }

\* Files handed to upload and delete
LocalFiles == { "data/test", "/home/user/data/a.txt", "x.bin" }

\* The state every call starts from, apart from its own arguments
Fresh ==
    /\ caller = "" /\ links_str = "" /\ csv_path = << >>
    /\ links = << >> /\ links0 = << >>
    /\ unzipFlag = FALSE
    /\ files0 = files
    /\ temp_file = None /\ temp_text = "" /\ temp_closed = FALSE
    /\ temp_made = 0
    /\ command = << >> /\ proc = "none" /\ lines_read = << >>
    /\ pbar_n = 0 /\ pbar_total = 0 /\ returncode = << >>
    /\ events = << >> /\ eof = FALSE
    /\ download_dir = ""
    /\ extracted_files = << >> /\ idx = 1 /\ log = << >>
    /\ round = 1 /\ ret1 = << >>
    /\ uploaded = << >>
    /\ ret = << >> /\ err = ""
    /\ fs = fs0

InitDownload ==
    /\ call = "download" /\ pc = "check"
    /\ caller = "" /\ links_str = "" /\ csv_path = << >>
    /\ links0 \in SeqsUpTo(Locators, MaxLinks)
    /\ links = links0
    /\ \E args \in DownloadArgs : bucket = args[1] /\ output_dir = args[2]
    /\ unzipFlag \in BOOLEAN
    /\ aria2c \in BOOLEAN
    /\ files = << >> /\ files0 = << >>
    /\ fs0 = {} /\ fs = fs0
    /\ temp_file = None /\ temp_text = "" /\ temp_closed = FALSE
    /\ temp_made = 0
    /\ command = << >> /\ proc = "none" /\ lines_read = << >>
    /\ pbar_n = 0 /\ pbar_total = 0 /\ returncode = << >>
    /\ events = << >> /\ eof = FALSE
    /\ download_dir = ""
    /\ extracted_files = << >> /\ idx = 1 /\ log = << >>
    /\ round = 1 /\ ret1 = << >>
    /\ uploaded = << >>
    /\ ret = << >> /\ err = ""

InitUnzip ==
    /\ call = "unzip" /\ pc = "unzip"
    /\ files \in SeqsUpTo(UnzipFiles, MaxFiles)
    /\ fs0 \in SUBSET Range(files)
    /\ bucket = None
    /\ output_dir = Some("out")
    /\ aria2c = TRUE
    /\ Fresh

InitUpload ==
    /\ call = "upload" /\ pc = "auth"
    /\ files \in SeqsUpTo(LocalFiles, MaxFiles)
    /\ fs0 = Range(files)
    /\ bucket = Some("bkt")
    /\ output_dir = None
    /\ aria2c = TRUE
    /\ Fresh

InitDelete ==
    /\ call = "delete" /\ pc = "delete"
    /\ files \in SeqsUpTo(LocalFiles, MaxFiles)
    /\ fs0 \in SUBSET Range(files)
    /\ bucket = None
    /\ output_dir = None
    /\ aria2c = TRUE
    /\ Fresh

\* A call of GOES.download, TorNet.catalog or TorNet.download(partial=True)
InitSubclass ==
    /\ \/ caller = "GOES.download" /\ pc = "goes"
          /\ output_dir \in OutputDirs
       \/ caller = "TorNet.catalog" /\ pc = "catalog"
          /\ output_dir = None
       \/ caller = "TorNet.download" /\ pc = "tornet"
          /\ output_dir \in OutputDirs
    /\ call = caller
    /\ links_str = "" /\ csv_path = << >>
    /\ links = << >> /\ links0 = << >>
    /\ bucket = None
    /\ unzipFlag = TRUE
    /\ aria2c \in BOOLEAN
    /\ files = << >> /\ files0 = << >>
    /\ fs0 = {} /\ fs = fs0
    /\ temp_file = None /\ temp_text = "" /\ temp_closed = FALSE
    /\ temp_made = 0
    /\ command = << >> /\ proc = "none" /\ lines_read = << >>
    /\ pbar_n = 0 /\ pbar_total = 0 /\ returncode = << >>
    /\ events = << >> /\ eof = FALSE
    /\ download_dir = ""
    /\ extracted_files = << >> /\ idx = 1 /\ log = << >>
    /\ round = 1 /\ ret1 = << >>
    /\ uploaded = << >>
    /\ ret = << >> /\ err = ""

Init == InitDownload \/ InitUnzip \/ InitUpload \/ InitDelete \/ InitSubclass

Next ==
    \/ CheckDependency \/ Resolve \/ CreateTemp \/ CreateTempFails
    \/ WriteTemp \/ Launch \/ LaunchFails
    \/ ReadLine \/ ReadEOF \/ ReadFails \/ PopenExit \/ Wait
    \/ RemoveTemp \/ ComputePaths
    \/ UnzipOpenFails \/ UnzipExtractFails \/ UnzipExtracted
    \/ UnzipRemoveFails \/ UnzipPassThrough \/ UnzipReturn \/ UnzipAgain
    \/ Authorize \/ AuthorizeFails \/ GetBucket \/ GetBucketFails
    \/ UploadFile \/ UploadFileFails \/ UploadReturn
    \/ DeleteFile \/ DeleteFails \/ DeleteReturn
    \/ GoesDownload \/ CatalogDownload \/ CatalogRead \/ TorNetDownload

Spec == Init /\ [][Next]_vars

----------------------------------------------------------------------------
(* Properties of Helper.download *)

DownloadEnded == call = "download" /\ pc \in { "done", "raised" }

\* C1: after any call to download has ended, by a return or by an
\* exception, the temporary locator file the call created no longer exists.
C1_TempFileGoneWhenDownloadEnds ==
    (DownloadEnded /\ temp_file.some) => temp_file.val \notin fs

\* C2: a worker that exits with a non-zero status k makes download fail
\* with the error that carries k; download never returns after such an exit.
C2_NonZeroExitFailsDownload ==
    (DownloadEnded /\ returncode # << >> /\ returncode[1] # 0)
        => (pc = "raised" /\ err = "CalledProcessError" /\ ret = << >>)

\* C3: when aria2c is not on the path, download raises the dependency error
\* with the locators not yet resolved, no temporary file made, no worker
\* started and nothing written to disk.
C3_MissingDependencyFailsFirst ==
    (call = "download" /\ ~aria2c)
        => /\ pc \in { "check", "raised" }
           /\ pc = "raised" => err = "RuntimeError"
           /\ ret = << >>
           /\ links = links0
           /\ temp_file = None /\ temp_text = "" /\ ~temp_closed
           /\ command = << >> /\ proc = "none"
           /\ fs = fs0

C3_Witness ==
    /\ call = "download" /\ ~aria2c
    /\ pc = "raised" /\ err = "RuntimeError"
    /\ Truthy(bucket) /\ Len(links0) = MaxLinks

\* The lines read so far that hold the completion notice
MarkerLinesRead ==
    { i \in DOMAIN lines_read :
        lines_read[i] = "[NOTICE] Download complete: /d/f\n" }

ReturnedPlain ==
    /\ call = "download" /\ pc = "done" /\ ~unzipFlag
    /\ returncode = << 0 >>

\* C4 as stated: a worker that writes N completion lines and exits 0 makes
\* download (extraction off) report N progress events and return N paths.
C4_Original ==
    ReturnedPlain
        => /\ pbar_n = Cardinality(MarkerLinesRead)
           /\ Len(ret[1]) = Cardinality(MarkerLinesRead)

\* C4 as amended: there is one progress event per completion line read and
\* none for any other line, and download (extraction off, exit 0) returns
\* one path per locator, whatever the number of completion lines.
C4_ProgressPerMarkerPathsPerLocator ==
    /\ (call = "download" /\ proc # "none")
          => pbar_n = Cardinality(MarkerLinesRead)
    /\ ReturnedPlain => Len(ret[1]) = Len(links0)

C4_Witness ==
    /\ ReturnedPlain
    /\ Len(lines_read) = 2 /\ Cardinality(MarkerLinesRead) = 1
    /\ pbar_n = 1
    /\ Len(links0) = 2 /\ Len(ret[1]) = 2

\* Lines 162-163 have run (a call without aria2c never gets that far)
Resolved == call = "download" /\ aria2c /\ pc \notin { "check", "resolve" }

\* C5 as stated: resolution keeps length and order; with no bucket the list
\* is unchanged, and with any bucket B that is supplied element i is
\* <proxy base URL>/file/<B>/<L[i]>.
C5_Original ==
    Resolved
        => /\ Len(links) = Len(links0)
           /\ ~bucket.some => links = links0
           /\ bucket.some =>
                \A i \in DOMAIN links0 :
                    links[i] = "https://bbproxy.meyerstk.com/file/"
                                   \o bucket.val \o "/" \o links0[i]

\* C5 as amended: the same, for every bucket that is supplied and is not
\* the empty string; an empty bucket leaves the list unchanged, as no bucket
\* does.
C5_ResolutionPerNonEmptyBucket ==
    Resolved
        => /\ Len(links) = Len(links0)
           /\ (~bucket.some \/ bucket.val = "") => links = links0
           /\ (bucket.some /\ bucket.val # "") =>
                \A i \in DOMAIN links0 :
                    links[i] = "https://bbproxy.meyerstk.com/file/"
                                   \o bucket.val \o "/" \o links0[i]

C5_Witness ==
    /\ Resolved
    /\ bucket = Some("bkt")
    /\ links0 = << "t.tar.gz", "https://z.org/r/a.zip?download=1" >>
    /\ links = << "https://bbproxy.meyerstk.com/file/bkt/t.tar.gz",
                  "https://bbproxy.meyerstk.com/file/bkt/https://z.org/r/a.zip?download=1" >>

\* The directory the files of a download land in: the output directory
\* when one was given and is not empty, the working directory otherwise
LandingDir ==
    IF output_dir.some /\ output_dir.val # ""
    THEN output_dir.val
    ELSE "/home/user"

\* The output directory as C6 states it: the one given, the working
\* directory when none was given
GivenDir == IF output_dir.some THEN output_dir.val ELSE "/home/user"

\* The final segment of a locator's URL path, query string and fragment
\* excluded
FinalSegment(locator) ==
    CASE locator = "t.tar.gz" -> "t.tar.gz"
      [] locator = "https://z.org/r/a.zip?download=1" -> "a.zip"
      [] locator = "http://z.org/c/n.csv;v=1#top" -> "n.csv;v=1"

\* The final segment with its ";parameters" excluded as well
FinalSegmentNoParams(locator) ==
    CASE locator = "t.tar.gz" -> "t.tar.gz"
      [] locator = "https://z.org/r/a.zip?download=1" -> "a.zip"
      [] locator = "http://z.org/c/n.csv;v=1#top" -> "n.csv"

\* A directory joined with a name (an empty directory adds nothing)
Joined(d, name) == IF d = "" THEN name ELSE d \o "/" \o name

\* C6 as stated: with exit 0 and extraction off, download returns one path
\* per locator, in locator order, duplicates kept: the output directory
\* (the working directory when none was given) joined with the last segment
\* of the locator's URL path, without query or fragment.
C6_Original ==
    ReturnedPlain
        => ret[1] = [i \in DOMAIN links0 |->
                        Joined(GivenDir, FinalSegment(links0[i]))]

\* C6 as amended: with exit 0 and extraction off, download returns one path
\* per locator, in locator order, duplicates kept: the output directory
\* (the working directory when none or an empty one was given), "/", and
\* the last segment of the locator's URL path, without query, fragment or
\* the ";parameters" of that segment.
C6_ReturnedPathsAreDirPlusLastSegment ==
    ReturnedPlain
        => ret[1] = [i \in DOMAIN links0 |->
                        LandingDir \o "/" \o FinalSegmentNoParams(links0[i])]

\* An empty output directory and a locator with ";parameters", twice
C6_Witness ==
    /\ ReturnedPlain
    /\ bucket = None /\ output_dir = Some("")
    /\ links0 = << "http://z.org/c/n.csv;v=1#top",
                   "http://z.org/c/n.csv;v=1#top" >>
    /\ ret[1] = << "/home/user/n.csv", "/home/user/n.csv" >>

----------------------------------------------------------------------------
(* Properties of Helper.unzip *)

InUnzip == call \in { "download", "unzip" } /\ pc \in { "unzip", "done" }

\* The directory unzip extracts into
ExtractDir == IF call = "download" THEN LandingDir ELSE "out"

ZipPaths(d) == << d \o "/a.txt", d \o "/sub/", d \o "/sub/b.txt" >>

TarPaths(d) == << d \o "/t/x.nc", d \o "/t/y.nc" >>

\* C7: a .zip that is extracted adds the output-directory path of each of
\* its members and is gone afterwards; a .tar.gz or .tgz that is extracted
\* adds the paths of its regular-file members only and is gone afterwards.
C7_ExtractedArchiveContributesMembers ==
    InUnzip
        => \A i \in DOMAIN log :
              log[i].tag = "extracted"
                 => /\ EndsWith(files[i], ".zip")
                       => log[i].contrib = ZipPaths(ExtractDir)
                    /\ (EndsWith(files[i], ".tar.gz")
                          \/ EndsWith(files[i], ".tgz"))
                       => log[i].contrib = TarPaths(ExtractDir)
                    /\ log[i].existed /\ ~log[i].exists
                    /\ files[i] \notin fs

C7_Witness ==
    /\ call = "unzip" /\ pc = "done" /\ round = 1
    /\ files = << "in/a.zip", "in/t.tgz" >>
    /\ log[1].tag = "extracted" /\ log[2].tag = "extracted"
    /\ ret[1] = << "out/a.txt", "out/sub/", "out/sub/b.txt",
                   "out/t/x.nc", "out/t/y.nc" >>
    /\ fs = { "out/a.txt", "out/sub/b.txt", "out/t/x.nc", "out/t/y.nc" }

FailureTags == { "open_failed", "extract_failed", "remove_failed" }

\* C8 as stated: a file whose processing fails at any step (opening,
\* extracting, deleting the archive) adds no path, the archive is left on
\* disk, nothing propagates and the later files are still processed.
C8_Original ==
    InUnzip
        => /\ \A i \in DOMAIN log :
                 log[i].tag \in FailureTags
                    => /\ log[i].contrib = << >>
                       /\ log[i].existed => log[i].exists
           /\ err = ""
           /\ pc = "done" => Len(log) = Len(files)

\* C8 as amended: a file whose opening or extraction fails adds no path;
\* a file whose archive cannot be deleted after extraction keeps the member
\* paths already collected; in every failure the archive is left on disk,
\* nothing propagates and the later files are still processed.
C8_FailedFileIsolated ==
    InUnzip
        => /\ \A i \in DOMAIN log :
                 /\ log[i].tag \in { "open_failed", "extract_failed" }
                       => log[i].contrib = << >>
                 /\ log[i].tag = "remove_failed"
                       => log[i].contrib =
                             IF EndsWith(files[i], ".zip")
                             THEN ZipPaths(ExtractDir)
                             ELSE TarPaths(ExtractDir)
                 /\ log[i].tag \in FailureTags
                       => (log[i].existed => log[i].exists)
           /\ err = ""
           /\ Len(log) = idx - 1
           /\ pc = "done" => (Len(log) = Len(files) /\ ret # << >>)

C8_Witness ==
    /\ call = "unzip" /\ pc = "done" /\ round = 1
    /\ files = << "in/t.tgz", "in/n.txt" >>
    /\ log[1].tag = "extract_failed" /\ log[1].existed
    /\ log[2].tag = "passed"
    /\ ret[1] = << "in/n.txt" >>
    /\ "in/t.tgz" \in fs

\* The files handed to unzip whose suffix is none of .zip, .tar.gz, .tgz
PlainNames == { "in/n.txt", "in/A.ZIP" }

\* C9: on a list of files none of which has an archive suffix, unzip
\* returns the same list, creates and deletes no file, and applied again to
\* its own result returns that result again.
C9_PlainListUnchangedAndIdempotent ==
    (call = "unzip" /\ Range(files0) \subseteq PlainNames)
        => /\ fs = fs0
           /\ (pc = "done" /\ round = 1) => ret = << files0 >>
           /\ round = 2 => (ret1 = << files0 >> /\ files = files0)
           /\ (pc = "done" /\ round = 2) => ret = ret1

C9_Witness ==
    /\ call = "unzip" /\ pc = "done" /\ round = 2
    /\ files0 = << "in/A.ZIP", "in/n.txt" >>
    /\ ret = << << "in/A.ZIP", "in/n.txt" >> >>
    /\ fs0 = { "in/n.txt" }

----------------------------------------------------------------------------
(* Properties of Helper.upload *)

\* The base file name of each local file
BaseNameOf(file) ==
    CASE file = "data/test" -> "test"
      [] file = "/home/user/data/a.txt" -> "a.txt"
      [] file = "x.bin" -> "x.bin"

\* C10: upload raises when authentication, the bucket lookup or the upload
\* of file i fails, with no file after i uploaded and no value returned; it
\* returns True only when every file was uploaded, each under its base name.
C10_UploadAllOrError ==
    call = "upload"
        => /\ uploaded = [k \in 1..(idx - 1) |->
                             [file |-> files[k], name |-> BaseNameOf(files[k])]]
           /\ pc = "raised"
                 => /\ ret = << >>
                    /\ err \in { "AuthError", "BucketError", "UploadError" }
                    /\ err \in { "AuthError", "BucketError" } => uploaded = << >>
                    /\ err = "UploadError" => Len(uploaded) < Len(files)
           /\ ret # << >>
                 => /\ ret = << TRUE >> /\ pc = "done" /\ err = ""
                    /\ Len(uploaded) = Len(files)
           /\ pc = "done" => ret = << TRUE >>

C10_Witness ==
    /\ call = "upload" /\ pc = "raised" /\ err = "UploadError"
    /\ files = << "/home/user/data/a.txt", "data/test" >>
    /\ uploaded = << [file |-> "/home/user/data/a.txt", name |-> "a.txt"] >>
    /\ ret = << >>

----------------------------------------------------------------------------
(* Properties of Helper.delete *)

\* C11: delete is best-effort.  At every point of a delete call the loop
\* has attempted exactly the files before idx, one attempt per file and in
\* list order; an attempt is either a removal, after which the file is
\* gone, or a warning, which leaves the disk as it was; no attempt raises;
\* and the call returns None only after every file was attempted, with
\* every removed file absent from the disk.
C11_DeleteIsBestEffort ==
    call = "delete" =>
        /\ err = "" /\ pc \in { "delete", "done" }
        /\ Len(log) = idx - 1
        /\ \A i \in DOMAIN log :
              /\ log[i].file = files[i]
              /\ log[i].tag \in { "deleted", "warning" }
              /\ log[i].tag = "deleted" =>
                    log[i].existed /\ ~log[i].exists /\ files[i] \notin fs
              /\ log[i].tag = "warning" => (log[i].exists <=> log[i].existed)
        /\ fs = fs0 \ { files[i] : i \in { j \in DOMAIN log :
                                              log[j].tag = "deleted" } }
        /\ pc = "done" => Len(log) = Len(files) /\ ret = << None >>

\* A missing file is warned about and the file after it is still removed
C11_Witness ==
    /\ call = "delete" /\ pc = "done"
    /\ files = << "x.bin", "data/test" >>
    /\ fs0 = { "data/test" }
    /\ [i \in DOMAIN log |-> log[i].tag] = << "warning", "deleted" >>
    /\ fs = {}
    /\ ret = << None >>

----------------------------------------------------------------------------
(* Properties of the subclasses' downloads *)

\* The file name a subclass request is for: the last path segment of the
\* URL it built
RequestedName ==
    CASE links_str = "https://noaa-goes16.s3.amazonaws.com/ABI/x.nc" -> "x.nc"
      [] links_str = "https://noaa-goes16.s3.amazonaws.com/y.nc" -> "y.nc"
      [] links_str =
           "https://zenodo.org/records/12636522/files/catalog.csv?download=1"
           -> "catalog.csv"

\* C12: a single-file request of GOES.download, TorNet.catalog or
\* TorNet.download reaches the download engine with exactly one locator,
\* the whole URL; the locator file holds that URL as its one line; the
\* progress total is one; and the result is the path of that one file in
\* the landing directory.
C12_SubclassSubmitsOneWholeUrl ==
    caller # "" =>
        /\ err # "AttributeError"
        /\ call = "download" =>
              /\ links0 = << links_str >>
              /\ temp_closed => temp_text = links_str \o "\n"
              /\ proc # "none" => pbar_total = 1
              /\ pc = "done" =>
                    ret = << << LandingDir \o "/" \o RequestedName >> >>

----------------------------------------------------------------------------
(* Properties of the progress bar and of the order of download's steps *)

\* The bar of a download job exists (line 177 has run)
BarMade == call = "download" /\ proc # "none"

\* C13 as stated: in every state of a download job the count lies between
\* zero and the total, the number of locators, whatever the worker wrote.
C13_Original ==
    BarMade => pbar_total = Len(links) /\ 0 <= pbar_n /\ pbar_n <= pbar_total

\* C13 as amended: the total is the number of locators; the count is the
\* number of completion lines read so far, so it never decreases, grows by
\* at most one per line read and never exceeds the number of lines read;
\* it is not capped at the total.
C13_CountNeverDecreases ==
    /\ [](BarMade => /\ pbar_total = Len(links)
                      /\ pbar_n = Cardinality(MarkerLinesRead)
                      /\ 0 <= pbar_n /\ pbar_n <= Len(lines_read))
    /\ [][(pbar_n <= pbar_n')
            /\ (pbar_n' - pbar_n <= Len(lines_read') - Len(lines_read))
            /\ (pbar_total' # pbar_total => ~BarMade)]_vars

\* A worker that wrote two completion lines for one locator: count 2 of 1
C13_Witness ==
    /\ BarMade
    /\ Len(links) = 1 /\ pbar_total = 1
    /\ Cardinality(MarkerLinesRead) = 2
    /\ pbar_n = 2

\* The positions, in stream order, of the lines read so far that hold the
\* completion notice
MarkerPositions ==
    SelectSeq([i \in 1 .. Len(lines_read) |-> i],
              LAMBDA i : lines_read[i] = "[NOTICE] Download complete: /d/f\n")

\* Something that download does after its read loop has been done: the exit
\* wait, the removal of the temporary file, the path computation, extraction
AfterStreamWork ==
    \/ returncode # << >>
    \/ temp_file.some /\ temp_file.val \notin fs
    \/ download_dir # ""
    \/ files # << >> \/ log # << >> \/ extracted_files # << >>
    \/ ret # << >>

\* C14: progress is streamed.  At every point of a download the progress
\* events made so far are exactly one per completion line read so far, in
\* the order of those lines, each made when its line was the last one read
\* and carrying the running count; a line is only read while the worker
\* runs and before the exit wait; and the exit wait, the removal of the
\* temporary file, the path computation and the extraction happen only
\* after the stream has ended, after which no line is read and no event is
\* made.
C14_ProgressIsStreamed ==
    /\ [](call = "download" =>
            /\ [k \in DOMAIN events |-> events[k].at] = MarkerPositions
            /\ \A k \in DOMAIN events : events[k].n = k
            /\ Len(events) = pbar_n
            /\ AfterStreamWork => eof)
    /\ [][call = "download" =>
            /\ (lines_read' # lines_read =>
                    proc = "running" /\ ~eof /\ ~AfterStreamWork)
            /\ (eof => lines_read' = lines_read /\ events' = events)]_vars

\* A completion line was read after another line and its event is already
\* made, while the worker still runs and before the stream has ended
C14_Witness ==
    /\ call = "download" /\ pc = "read"
    /\ proc = "running" /\ ~eof /\ returncode = << >>
    /\ lines_read = << "Download Results:\n",
                       "[NOTICE] Download complete: /d/f\n" >>
    /\ events = << [n |-> 1, at |-> 2] >>
    /\ pbar_n = 1

\* The lines of a text: the pieces that end at each line end, and what
\* follows the last line end when that is not empty
LinesOf(text, from) ==
    LET RECURSIVE Rest(_)
        Rest(i) ==
            IF i > Len(text) THEN << >>
            ELSE LET j == Find(text, "\n", i)
                 IN  IF j = 0 THEN << From(text, i) >>
                     ELSE << Slice(text, i, j - 1) >> \o Rest(j + 1)
    IN  Rest(from)

\* C15: before the step that starts the worker the temporary file exists,
\* is closed and holds the resolved locators, one per line and in list
\* order, every line ended; from then on its text and the locator list stay
\* as they are; whenever the worker has been started exactly one temporary
\* file was created and it is the file the command names; the file exists
\* for as long as the worker runs; and no call creates a second file.
C15_LocatorFileReadyBeforeWorker ==
    /\ [](call = "download" =>
            /\ temp_made <= 1
            /\ temp_made = 1 <=> temp_file.some
            /\ proc # "none" =>
                  /\ temp_made = 1
                  /\ command[8] = "-i" /\ command[9] = temp_file.val
                  /\ temp_closed
            /\ proc = "running" => temp_file.val \in fs)
    /\ [][(call = "download" /\ proc = "none" /\ proc' = "running") =>
            /\ temp_closed /\ temp_file.val \in fs
            /\ LinesOf(temp_text, 1) = links
            /\ links = << >> \/ EndsWith(temp_text, "\n")]_vars
    /\ [][(call = "download" /\ proc # "none") =>
            temp_text' = temp_text /\ links' = links]_vars

\* The worker runs on a closed file of two resolved locators
C15_Witness ==
    /\ call = "download" /\ proc = "running"
    /\ bucket = Some("bkt")
    /\ links0 = << "t.tar.gz", "https://z.org/r/a.zip?download=1" >>
    /\ temp_closed /\ temp_made = 1
    /\ temp_text =
         "https://bbproxy.meyerstk.com/file/bkt/t.tar.gz\n"
           \o "https://bbproxy.meyerstk.com/file/bkt/"
           \o "https://z.org/r/a.zip?download=1\n"
    /\ "/tmp/tmplinks" \in fs
    /\ Len(lines_read) = 1

====
